---------------------------- MODULE Spec2Model ----------------------------
(***************************************************************************)
(* Model of ytipfs-worker (src/ytipfs-worker/src/main.py): the download    *)
(* pipeline download_post -> _download_video -> _convert_media ->          *)
(* _pin_to_pinata, the CookieManager shared by all requests, and the       *)
(* keyword classifier in the exception handler of _download_video.         *)
(*                                                                         *)
(* Texts (exception messages, tool diagnostics, response details) are      *)
(* sequences of tokens; a keyword is a token sequence and "keyword in      *)
(* text" is contiguous-subsequence containment.  Numbers printed into a    *)
(* text are printed digit by digit, so that a number can contain "429".    *)
(* Sizes are counted in tenths of a megabyte (the precision of the         *)
(* "{size_mb:.1f}" format).                                                *)
(***************************************************************************)
EXTENDS Integers, Sequences, FiniteSets, TLC

\* ------------------------------------------------------------------ bounds
NumReqs == 2        \* requests handled in one behaviour (they may overlap)
MaxTime == 2        \* the clock runs 0..MaxTime
MaxLen  == 3        \* longest raw failure text drawn for the classifier
MaxUrl  == 2        \* longest string (in code points) encoded into a slug

\* ------------------------------------------------------- program constants
MAX_FILE_MB == 1500
COOKIE_VALIDATION_INTERVAL == 1

Reqs == 1..NumReqs
None == "None"

\* -------------------------------------------------------------------- text
RECURSIVE Digits(_)
Digits(n) ==
    IF n < 10
    THEN << CASE n = 0 -> "0" [] n = 1 -> "1" [] n = 2 -> "2" [] n = 3 -> "3"
              [] n = 4 -> "4" [] n = 5 -> "5" [] n = 6 -> "6" [] n = 7 -> "7"
              [] n = 8 -> "8" [] OTHER -> "9" >>
    ELSE Digits(n \div 10) \o Digits(n % 10)

\* f"{size_mb:.1f}" of a size given in tenths of a megabyte
FormatMB(tenths) == Digits(tenths \div 10) \o <<".">> \o Digits(tenths % 10)

\* str.lower(), token by token
LowerTok(t) ==
    CASE t = "Login"       -> "login"
      [] t = "Private"     -> "private"
      [] t = "Unavailable" -> "unavailable"
      [] t = "Not"         -> "not"
      [] t = "Rate"        -> "rate"
      [] t = "File"        -> "file"
      [] t = "Download"    -> "download"
      [] t = "Downloaded"  -> "downloaded"
      [] t = "Video"       -> "video"
      [] t = "Image"       -> "image"
      [] t = "Pinata"      -> "pinata"
      [] t = "MB"          -> "mb"
      [] t = "HTTP"        -> "http"
      [] t = "Error"       -> "error"
      [] t = "No"          -> "no"
      [] t = "Invalid"     -> "invalid"
      [] OTHER             -> t

Lower(s) == [i \in 1..Len(s) |-> LowerTok(s[i])]

\* Python's "kw in text"
Contains(kw, s) ==
    \E i \in 0..(Len(s) - Len(kw)) : \A j \in 1..Len(kw) : s[i + j] = kw[j]


\* -------------------------------------------------------------- exceptions
\* An exception in flight: an HTTPException(status_code, detail), or any
\* other exception, of which only str(e) matters.
HTTPExc(status, detail) == [type |-> "HTTP", status |-> status, detail |-> detail]
ErrorExc(msg)           == [type |-> "Error", status |-> 0, detail |-> msg]
NoExc                   == [type |-> None, status |-> 0, detail |-> <<>>]

\* str(e).  HTTPException is constructed with keyword arguments only, so
\* e.args is empty: str(e) is "{status_code}: {detail}" where the installed
\* framework defines HTTPException.__str__, and "" where it does not.
StrStyles == {"status_detail", "empty"}
StrExc(e, style) ==
    IF e.type = "HTTP"
    THEN IF style = "status_detail"
         THEN Digits(e.status) \o <<":">> \o e.detail
         ELSE <<>>
    ELSE e.detail

\* The HTTPExceptions the code raises
ExtractNoneExc   == HTTPExc(400, <<"yt-dlp", "failed", "to", "extract", "info">>)
FileNotFoundExc  == HTTPExc(500, <<"Downloaded", "file", "not", "found">>)
TooLargeDetail(size) ==
    <<"File", "too", "large", "(">> \o FormatMB(size) \o <<"MB", ">">>
        \o Digits(MAX_FILE_MB) \o <<"MB", ")">>
TooLargeExc(size) == HTTPExc(413, TooLargeDetail(size))
VideoConvExc(stderr) == HTTPExc(500, <<"Video", "conversion", "failed:">> \o stderr)
ImageConvExc(stderr) == HTTPExc(500, <<"Image", "conversion", "failed:">> \o stderr)
NoJwtExc         == HTTPExc(500, <<"PINATA_JWT", "not", "configured">>)
PinataExc(body)  == HTTPExc(502, <<"Pinata", "error:">> \o body)
ENOENT           == ErrorExc(<<"[Errno 2]", "No", "such", "file", "or", "directory">>)

\* -------------------------------------------------------- error classifier
UpdateCookiesMsg == <<"Instagram rate limit reached or authentication required. Please update your Instagram cookies for better reliability.">>
TryLaterMsg      == <<"Instagram rate limit reached or login required. Please try again later.">>
NotFoundMsg      == <<"The requested Instagram content was not found or is unavailable.">>
PrivateMsg       == <<"This Instagram content is private and cannot be downloaded.">>

\* mutant: "private" is left to the third group
AuthKeywords_NoPrivate ==
    { <<"login">>, <<"rate", "limit">>, <<"4", "2", "9">>, <<"authentication">> }

\* line 395
AuthKeywords ==
    { <<"login">>, <<"rate", "limit">>, <<"4", "2", "9">>,
      <<"authentication">>, <<"private">> }
NotFoundKeywords == { <<"unavailable">>, <<"not", "found">> }
PrivateKeywords  == { <<"private">> }

\* mutant: the not-found keywords are tried before the auth keywords
Classify_NotFoundFirst(msg, enabled, valid) ==
    LET error_msg == Lower(msg) IN
    IF \E k \in NotFoundKeywords : Contains(k, error_msg)
    THEN HTTPExc(404, NotFoundMsg)
    ELSE IF \E k \in AuthKeywords : Contains(k, error_msg)
    THEN IF enabled /\ ~valid
         THEN HTTPExc(503, UpdateCookiesMsg)
         ELSE HTTPExc(503, TryLaterMsg)
    ELSE IF \E k \in PrivateKeywords : Contains(k, error_msg)
    THEN HTTPExc(403, PrivateMsg)
    ELSE HTTPExc(500, <<"Download", "failed:">> \o msg)

\* The except block of _download_video: msg is str(e)
Classify(msg, enabled, valid) ==
    LET error_msg == Lower(msg) IN
    IF \E k \in AuthKeywords : Contains(k, error_msg)
    THEN IF enabled /\ ~valid
         THEN HTTPExc(503, UpdateCookiesMsg)
         ELSE HTTPExc(503, TryLaterMsg)
    ELSE IF \E k \in NotFoundKeywords : Contains(k, error_msg)
    THEN HTTPExc(404, NotFoundMsg)
    ELSE IF \E k \in PrivateKeywords : Contains(k, error_msg)
    THEN HTTPExc(403, PrivateMsg)
    ELSE HTTPExc(500, <<"Download", "failed:">> \o msg)

\* ------------------------------------------------------------------- paths
\* A file of DOWNLOAD_DIR.  The name is "<title>-<id><_h264 * h264>.<ext>";
\* alt marks a name that contains the id but is not the one prepare_filename
\* predicts.
Path(id, alt, h264, ext) == [id |-> id, alt |-> alt, h264 |-> h264, ext |-> ext]
NoPath == Path(0, FALSE, 0, None)

LowerExt(e) ==
    CASE e = "MP4" -> "mp4" [] e = "JPG" -> "jpg" [] e = "PNG" -> "png" [] OTHER -> e
Suffix(p)        == LowerExt(p.ext)
WithSuffix(p, e) == [p EXCEPT !.ext = e]
H264Name(p)      == [p EXCEPT !.h264 = @ + 1, !.ext = "mp4"]

\* mimetypes.guess_type(...) starts with "image"
IsImage(p) == Suffix(p) \in {"png", "jpg", "jpeg"}
VIDEO == "video"
IMAGE == "image"

\* The directory: files in order of modification, oldest first, each with
\* the request that wrote it.
FileAt(fs, p)  == \E i \in 1..Len(fs) : fs[i].path = p
Exists(fs, p)  == FileAt(fs, p)
Unlink(fs, p)  == SelectSeq(fs, LAMBDA f : f.path # p)
WriteFile(fs, p, r) == Append(Unlink(fs, p), [path |-> p, owner |-> r])
\* sorted(DOWNLOAD_DIR.glob(f"*{vid}*"), key=mtime, reverse=True)
Glob(fs, vid) ==
    LET m == SelectSeq(fs, LAMBDA f : f.path.id = vid)
    IN  [i \in 1..Len(m) |-> m[Len(m) + 1 - i].path]

\* ------------------------------------------------------ conversion decision
IncompatibleCodecs == {"vp9", "vp8", "av1", "hevc"}
CompatibleCodecs   == {"h264", "avc"}

\* The stream loop of _needs_h264_conversion
RECURSIVE ScanStreams(_)
ScanStreams(streams) ==
    IF streams = <<>> THEN TRUE
    ELSE IF Head(streams) \in IncompatibleCodecs THEN TRUE
    ELSE IF Head(streams) \in CompatibleCodecs THEN FALSE
    ELSE ScanStreams(Tail(streams))

\* mutant: a failed probe is taken to mean "compatible"
NeedsH264Conversion_TrustOnFailure(probe) ==
    IF probe.ok THEN ScanStreams(probe.streams) ELSE FALSE

\* probe = [ok, streams]: ffprobe's exit and the codec names it printed
NeedsH264Conversion(probe) ==
    IF probe.ok THEN ScanStreams(probe.streams) ELSE TRUE

VideoNeedsConversion(p, probe) ==
    (Suffix(p) # "mp4") \/ NeedsH264Conversion(probe)
VideoOutPath(p) ==
    IF Suffix(p) # "mp4" THEN WithSuffix(p, "mp4") ELSE H264Name(p)
ImageNeedsConversion(p) == Suffix(p) \notin {"jpg", "jpeg"}
ImageOutPath(p) == WithSuffix(p, "jpg")

\* size_mb > MAX_FILE_MB, the size in tenths of a megabyte
TooLarge(size) == size > MAX_FILE_MB * 10


\* ------------------------------------------------------ environment inputs
\* The videos the request URLs name.  Request r asks for one of the first r
\* (any assignment of videos to requests is one of these up to renaming).
VidsOf(r) == 1..r

\* str(e) of what extract_info raises
ExtractErrors ==
    { <<"ERROR:", "Login", "required">>, <<"network", "timeout">> }

\* What a successful extract_info leaves behind: the extension of the name
\* prepare_filename predicts, and where the file really is.
ExtractFiles ==
    { <<"webm", "expected">>, <<"webm", "merged">>, <<"mp4", "expected">>,
      <<"MP4", "expected">>, <<"mp4", "renamed">>, <<"mp4", "none">>,
      <<"png", "expected">>, <<"jpg", "expected">> }

\* st_size, in tenths of a megabyte
Sizes == {15000, 20000, 24290}

ProbeCodecs == IncompatibleCodecs \cup CompatibleCodecs \cup {"mpeg4"}
\* ffprobe -select_streams v:0 prints at most one stream
ProbeFailed   == [ok |-> FALSE, streams |-> <<>>]
ProbeOutcomes ==
    { ProbeFailed, [ok |-> TRUE, streams |-> <<>>] }
        \cup { [ok |-> TRUE, streams |-> <<c>>] : c \in ProbeCodecs }
NotProbed == [ok |-> FALSE, streams |-> <<"not probed">>]

\* e.stderr of a failed ffmpeg run
FfmpegErrors == { <<"Invalid", "data">>, <<"Decoder", "not", "found">> }
NoSuchFile   == <<"No", "such", "file", "or", "directory">>

PinBodies == { <<"upstream", "error">> }
PinCid    == "bafy"

\* ------------------------------------------------------- base64url and UTF-8
\* A str is a sequence of code points, bytes are a sequence of 0..255, and
\* the text of a slug is a sequence of one-character strings.
B64Std ==
    << "A", "B", "C", "D", "E", "F", "G", "H", "I", "J", "K", "L", "M",
       "N", "O", "P", "Q", "R", "S", "T", "U", "V", "W", "X", "Y", "Z",
       "a", "b", "c", "d", "e", "f", "g", "h", "i", "j", "k", "l", "m",
       "n", "o", "p", "q", "r", "s", "t", "u", "v", "w", "x", "y", "z",
       "0", "1", "2", "3", "4", "5", "6", "7", "8", "9", "+", "/" >>
PadChar == "="

\* the two translations of the URL-safe alphabet
ToUrlSafe(c)   == CASE c = "+" -> "-" [] c = "/" -> "_" [] OTHER -> c
FromUrlSafe(c) == CASE c = "-" -> "+" [] c = "_" -> "/" [] OTHER -> c

\* binascii's table: the value of a character of the standard alphabet, -1
\* for any other character
B64Value(c) ==
    IF \E i \in 1..64 : B64Std[i] = c
    THEN (CHOOSE i \in 1..64 : B64Std[i] = c) - 1
    ELSE -1

\* str.encode(): UTF-8
Utf8Char(cp) ==
    IF cp < 128 THEN <<cp>>
    ELSE IF cp < 2048 THEN <<192 + (cp \div 64), 128 + (cp % 64)>>
    ELSE IF cp < 65536
    THEN <<224 + (cp \div 4096), 128 + ((cp \div 64) % 64), 128 + (cp % 64)>>
    ELSE <<240 + (cp \div 262144), 128 + ((cp \div 4096) % 64),
           128 + ((cp \div 64) % 64), 128 + (cp % 64)>>
RECURSIVE Utf8Encode(_)
Utf8Encode(u) == IF u = <<>> THEN <<>> ELSE Utf8Char(Head(u)) \o Utf8Encode(Tail(u))

\* A slug as a client builds it: urlsafe_b64encode(u.encode()) without the
\* trailing "="
B64Char(v) == ToUrlSafe(B64Std[v + 1])
RECURSIVE B64EncodeNoPad(_)
B64EncodeNoPad(b) ==
    CASE Len(b) = 0 -> <<>>
      [] Len(b) = 1 -> << B64Char(b[1] \div 4), B64Char((b[1] % 4) * 16) >>
      [] Len(b) = 2 -> << B64Char(b[1] \div 4),
                          B64Char((b[1] % 4) * 16 + (b[2] \div 16)),
                          B64Char((b[2] % 16) * 4) >>
      [] OTHER      -> << B64Char(b[1] \div 4),
                          B64Char((b[1] % 4) * 16 + (b[2] \div 16)),
                          B64Char((b[2] % 16) * 4 + (b[3] \div 64)),
                          B64Char(b[3] % 64) >>
                       \o B64EncodeNoPad(SubSeq(b, 4, Len(b)))
SlugOf(u) == B64EncodeNoPad(Utf8Encode(u))

\* The outcome of a decoding step: the value, or the exception raised
Decoded(v)  == [ok |-> TRUE, val |-> v]
DecodeError == [ok |-> FALSE, val |-> <<>>]

\* base64.urlsafe_b64decode, i.e. binascii.a2b_base64 in its default
\* (non-strict) mode after the translation of "-" and "_": characters outside
\* the alphabet are skipped, "=" ends the data only where a quad can end, and
\* the data must not end inside a quad.
RECURSIVE A2B(_, _, _, _, _, _)
A2B(s, i, quad_pos, leftchar, pads, out) ==
    IF i > Len(s)
    THEN IF quad_pos # 0 THEN DecodeError ELSE Decoded(out)
    ELSE IF s[i] = PadChar
    THEN IF quad_pos >= 2 /\ quad_pos + pads + 1 >= 4
         THEN Decoded(out)
         ELSE A2B(s, i + 1, quad_pos, leftchar,
                  IF quad_pos >= 2 THEN pads + 1 ELSE pads, out)
    ELSE LET this_ch == B64Value(FromUrlSafe(s[i])) IN
         IF this_ch = -1
         THEN A2B(s, i + 1, quad_pos, leftchar, pads, out)
         ELSE CASE quad_pos = 0 -> A2B(s, i + 1, 1, this_ch, 0, out)
                [] quad_pos = 1 ->
                      A2B(s, i + 1, 2, this_ch % 16, 0,
                          Append(out, leftchar * 4 + (this_ch \div 16)))
                [] quad_pos = 2 ->
                      A2B(s, i + 1, 3, this_ch % 4, 0,
                          Append(out, leftchar * 16 + (this_ch \div 4)))
                [] OTHER ->
                      A2B(s, i + 1, 0, 0, 0, Append(out, leftchar * 64 + this_ch))
UrlSafeB64Decode(s) == A2B(s, 1, 0, 0, 0, <<>>)

\* bytes.decode(): strict UTF-8
Continuation(b, i) == i <= Len(b) /\ b[i] >= 128 /\ b[i] <= 191
RECURSIVE Utf8Scan(_, _, _)
Utf8Scan(b, i, out) ==
    IF i > Len(b) THEN Decoded(out)
    ELSE IF b[i] < 128 THEN Utf8Scan(b, i + 1, Append(out, b[i]))
    ELSE IF b[i] >= 194 /\ b[i] <= 223 /\ Continuation(b, i + 1)
    THEN Utf8Scan(b, i + 2, Append(out, (b[i] - 192) * 64 + (b[i + 1] - 128)))
    ELSE IF b[i] >= 224 /\ b[i] <= 239 /\ Continuation(b, i + 1) /\ Continuation(b, i + 2)
    THEN LET cp == (b[i] - 224) * 4096 + (b[i + 1] - 128) * 64 + (b[i + 2] - 128)
         IN  IF cp < 2048 \/ (cp >= 55296 /\ cp <= 57343) THEN DecodeError
             ELSE Utf8Scan(b, i + 3, Append(out, cp))
    ELSE IF b[i] >= 240 /\ b[i] <= 244 /\ Continuation(b, i + 1)
            /\ Continuation(b, i + 2) /\ Continuation(b, i + 3)
    THEN LET cp == (b[i] - 240) * 262144 + (b[i + 1] - 128) * 4096
                       + (b[i + 2] - 128) * 64 + (b[i + 3] - 128)
         IN  IF cp < 65536 \/ cp > 1114111 THEN DecodeError
             ELSE Utf8Scan(b, i + 4, Append(out, cp))
    ELSE DecodeError
Utf8Decode(b) == Utf8Scan(b, 1, <<>>)

Pad(n) == [k \in 1..n |-> PadChar]

\* mutant: the slug is decoded as it came, without the missing "="
B64UrlDecode_NoPad(s) ==
    LET raw == UrlSafeB64Decode(s)
    IN  IF raw.ok THEN Utf8Decode(raw.val) ELSE DecodeError

\* _b64url_decode, lines 231-235
B64UrlDecode(s) ==
    LET rem    == Len(s) % 4
        padded == IF rem # 0 THEN s \o Pad(4 - rem) ELSE s
        raw    == UrlSafeB64Decode(padded)
    IN  IF raw.ok THEN Utf8Decode(raw.val) ELSE DecodeError

\* DownloadRequest(url=url): pydantic's AnyUrl wants a scheme of letters,
\* "://" and something after it
IsUrl(u) ==
    \E i \in 2..Len(u) :
        /\ i + 3 <= Len(u)
        /\ u[i] = 58 /\ u[i + 1] = 47 /\ u[i + 2] = 47
        /\ \A j \in 1..(i - 1) : u[j] >= 97 /\ u[j] <= 122
MalformedSlugExc   == HTTPExc(400, <<"Malformed", "base64url", "slug">>)
UrlValidationError == ErrorExc(<<"ValidationError:", "url">>)

\* The strings GET /d/{b64url} is called for.  Code points: h : / e-acute,
\* the euro sign and an emoji (1, 1, 1, 2, 3 and 4 bytes of UTF-8); every
\* string of them up to MaxUrl, and one URL.
UrlChars   == {104, 58, 47, 233, 8364, 128512}
SampleUrl  == <<104, 116, 116, 112, 58, 47, 47, 97, 46, 98, 47, 99>>  \* http://a.b/c
UrlStrings == UNION { [1..n -> UrlChars] : n \in 0..MaxUrl } \cup {SampleUrl}
\* What a caller can make of a slug: send it as it is, lose its last
\* character, or add a character (of the alphabet, outside it, or "=")
SlugForms == {"exact", "cut", "plus A", "plus dot", "plus ="}
FormOf(slug, form) ==
    CASE form = "exact"    -> slug
      [] form = "cut"      -> SubSeq(slug, 1, Len(slug) - 1)
      [] form = "plus A"   -> Append(slug, "A")
      [] form = "plus dot" -> Append(slug, ".")
      [] OTHER             -> Append(slug, PadChar)

\* ------------------------------------------------------------------- state
VARIABLES
    conf,        \* [keep, jwt, style, load]: KEEP_FILES, PINATA_JWT set,
                 \* the str(e) style, and the load the service is under
    logRaises,   \* whether log_download_event can raise in this behaviour
    cm,          \* cookie_manager: [enabled, valid, last]; last = -1 is None
    cookieFile,  \* INSTAGRAM_COOKIES_PATH: "absent", "sample" or "real"
    now,         \* the clock, in the smallest steps its readers tell apart
    files,       \* DOWNLOAD_DIR
    audit,       \* logs/instagram_download.log: <<[req, id, status], ...>>
    probes,      \* the times validation probes were started by get_download_options
    forced,      \* POST /cookies/validate has been called
    fv,          \* where the POST /cookies/validate handler is
    rq,          \* the requests: rq[r] is the frame of download_post
    cls,         \* the classifier run on its own: [msg, enabled, valid, out]
    seen,        \* what GET /cookies/status last answered
    dg,          \* GET /d/{b64url}: the frame of download_get
    vc           \* a call of cookie_manager.validate_cookies(): [pc, ret]

\* the variables only GET /cookies/status, GET /d/{b64url} and a direct call
\* of validate_cookies write
aux  == <<seen, dg, vc>>
vars == <<conf, logRaises, cm, cookieFile, now, files, audit, probes, forced, fv, rq, cls, aux>>

IdleReq ==
    [ pc        |-> "idle",
      vid       |-> 0,         \* the video of req.url
      id        |-> -1,        \* download_id
      cookie    |-> FALSE,     \* "cookiefile" in ydl_opts
      pred      |-> NoPath,    \* Path(ydl.prepare_filename(info))
      out       |-> NoPath,    \* out, as resolved and measured
      size      |-> -1,        \* out.stat().st_size
      mtype     |-> None,      \* media_type
      probe     |-> NotProbed, \* what ffprobe answered
      conv      |-> None,      \* ffmpeg: None (not run), "ok", "failed"
      convOut   |-> NoPath,    \* out_path given to ffmpeg
      file_path |-> NoPath,    \* file_path of download_post; NoPath is unbound
      raised    |-> NoExc,     \* what was raised inside the try of _download_video
      exc       |-> NoExc,     \* the exception download_post is handling
      pinned    |-> NoPath,    \* the file posted to Pinata
      pinStatus |-> 0,         \* resp.status_code
      result    |-> NoExc ]    \* what the caller gets: an exception, or type "ok"

OkResult == [type |-> "ok", status |-> 200, detail |-> <<PinCid>>]

\* The frame is gone once the handler has returned.
Returned(req) == [IdleReq EXCEPT !.pc = "done", !.id = req.id]

ClsIdle == [msg |-> <<>>, enabled |-> FALSE, valid |-> FALSE, out |-> NoExc]

\* Cookie configurations.  With cookies disabled the file is never read.
CookieConfigs ==
    { <<FALSE, "absent">>, <<TRUE, "absent">>, <<TRUE, "sample">>, <<TRUE, "real">> }

\* The load the service is under.  "serial": one request after the other,
\* the environment answering in every way listed above.  "overlap": the
\* first two requests run concurrently (later ones follow one by one), the
\* environment answering in a few representative ways.  "cookies": all
\* requests run concurrently and their extraction fails, while the clock
\* runs and POST /cookies/validate is called.
Full     == conf.load = "serial"
ExtractExcs ==
    CASE conf.load = "serial"  -> {ErrorExc(m) : m \in ExtractErrors} \cup {ExtractNoneExc}
      [] conf.load = "overlap" -> {ErrorExc(<<"ERROR:", "Login", "required">>)}
      [] OTHER                 -> {ErrorExc(<<"network", "timeout">>)}
ExtractOuts ==
    CASE conf.load = "serial"  -> ExtractFiles
      [] conf.load = "overlap" -> { <<"webm", "expected">>, <<"mp4", "expected">>,
                                    <<"mp4", "none">>, <<"png", "expected">> }
      [] OTHER                 -> {}
StatSizes  == IF Full THEN Sizes ELSE {15000, 24290}
FfprobeOutcomes ==
    IF Full THEN ProbeOutcomes
    ELSE {ProbeFailed, [ok |-> TRUE, streams |-> <<"h264">>]}
PinAnswers == IF Full THEN {"200", "500", "raise"} ELSE {"200", "500"}
FfmpegStderrs == IF Full THEN FfmpegErrors ELSE { <<"Invalid", "data">> }

\* Nothing has called GET /cookies/status, GET /d/{b64url} or
\* validate_cookies() directly.
NoStatus == [cookies_enabled |-> FALSE, cookies_exist |-> FALSE,
             cookies_valid |-> FALSE, last_validation |-> -2]
DgIdle   == [pc |-> "idle", u |-> <<>>, form |-> None, slug |-> <<>>,
             ok |-> FALSE, url |-> <<>>, result |-> NoExc]
VcIdle   == [pc |-> "idle", ret |-> None]
AuxIdle  == seen = NoStatus /\ dg = DgIdle /\ vc = VcIdle

\* The service after start-up, before any handler has run
InitCore ==
    /\ \E c \in CookieConfigs :
        /\ cm = [enabled |-> c[1], valid |-> FALSE, last |-> -1]
        /\ cookieFile = c[2]
    /\ now = 0
    /\ files = <<>>
    /\ audit = <<>>
    /\ probes = <<>>
    /\ forced = FALSE
    /\ fv = "idle"
    /\ rq = [r \in Reqs |-> IdleReq]
    /\ cls = ClsIdle

\* ... whatever log_download_event can do
InitService == InitCore /\ AuxIdle

InitState ==
    /\ InitService
    \* logging.Handler.emit absorbs its own errors and json.dumps is given
    \* strings and numbers only: log_download_event returns normally.
    /\ logRaises = FALSE

\* The pipeline with the upload credential configured.  Serial load: both
\* str(e) styles, every cookie configuration (a sample file is what an absent
\* one becomes), KEEP_FILES off.  Overlapping load: KEEP_FILES on and off,
\* cookies disabled.
Init ==
    /\ InitState
    /\ conf \in [keep : BOOLEAN, jwt : {TRUE}, style : StrStyles,
                 load : {"serial", "overlap"}]
    /\ conf.load = "serial" => ~conf.keep /\ cookieFile # "sample"
    /\ conf.load = "overlap" => conf.style = "status_detail" /\ ~cm.enabled

\* ------------------------------------------------------------ CookieManager
\* mutant: any file at the path counts, the placeholder too
CookiesExist_AnyFile == cookieFile # "absent"

\* cookies_exist, lines 115-122: the file is there, and is neither empty nor
\* the placeholder
CookiesExist == cookieFile = "real"

ShouldValidate ==
    \/ cm.last = -1
    \/ now - cm.last > COOKIE_VALIDATION_INTERVAL

ProbeResults == {"info", "none", "raise"}

\* validate_cookies, lines 139-152: the probe returns
ValidAfterProbe(res) == res = "info"

\* mutant: a failed probe forgets the last validation
AfterProbe_ClearsStamp(c, res) ==
    IF ValidAfterProbe(res)
    THEN [c EXCEPT !.valid = TRUE]
    ELSE [c EXCEPT !.valid = FALSE, !.last = -1]

\* validate_cookies, lines 142-143 and 148-151: cookie_manager once the
\* probe has answered res, before line 144
AfterProbe(c, res) == [c EXCEPT !.valid = ValidAfterProbe(res)]

\* What can be at INSTAGRAM_COOKIES_PATH; read_text raises on "unreadable"
\* (no permission, a directory, bytes that are not text)
CookieFiles == {"absent", "sample", "real", "unreadable"}
CookiesUnreadable == cookieFile = "unreadable"

\* ---------------------------------------------------------------- requests
Emit(r, status) == Append(audit, [req |-> r, id |-> rq[r].id, status |-> status])
LogResults == IF logRaises THEN {"ok", "raise"} ELSE {"ok"}
LogExc == ErrorExc(<<"log", "write", "failed">>)

\* download_post, lines 526-541
DownloadPost(r) ==
    /\ rq[r].pc = "idle"
    /\ (Full \/ (conf.load = "overlap" /\ r > 2))
          => \A q \in Reqs : q < r => rq[q].pc = "done"
    /\ \E v \in VidsOf(r), lg \in LogResults :
        IF lg = "ok"
        THEN /\ audit' = Append(audit, [req |-> r, id |-> now, status |-> "started"])
             /\ rq' = [rq EXCEPT ![r].pc = "opts", ![r].vid = v, ![r].id = now]
        ELSE /\ audit' = audit
             /\ rq' = [rq EXCEPT ![r] = Returned([@ EXCEPT !.id = now, !.result = LogExc])]
    /\ UNCHANGED <<conf, logRaises, cm, cookieFile, now, files, probes, forced, fv, cls>>

\* POST /download
Start(r) == DownloadPost(r) /\ UNCHANGED aux

\* GET /d/{b64url}, lines 603-608
DownloadGet(r) ==
    /\ dg.pc = "ready"
    /\ LET url == B64UrlDecode(dg.slug) IN
       IF ~url.ok
       THEN /\ dg' = [dg EXCEPT !.pc = "done", !.result = MalformedSlugExc]
            /\ UNCHANGED <<conf, logRaises, cm, cookieFile, now, files, audit,
                           probes, forced, fv, rq, cls>>
       ELSE IF ~IsUrl(url.val)
       THEN /\ dg' = [dg EXCEPT !.pc = "done", !.ok = TRUE, !.url = url.val,
                                !.result = UrlValidationError]
            /\ UNCHANGED <<conf, logRaises, cm, cookieFile, now, files, audit,
                           probes, forced, fv, rq, cls>>
       ELSE /\ dg' = [dg EXCEPT !.pc = "post", !.ok = TRUE, !.url = url.val]
            /\ DownloadPost(r)
    /\ UNCHANGED <<seen, vc>>

\* The except block of _download_video, lines 391-422: whatever was raised
\* inside the try is replaced by the HTTPException its text classifies to.
Handler(e) == Classify(StrExc(e, conf.style), cm.enabled, cm.valid)

\* req, a frame of download_post, after e was raised inside _download_video
RaiseInDownload(req, e) ==
    [req EXCEPT !.pc = "logfail", !.raised = e, !.exc = Handler(e)]

\* mutant: the except block of download_post logs nothing
RaiseInPost_Unlogged(req, e) == [req EXCEPT !.pc = "finally", !.exc = e, !.result = e]

\* req after e was raised in the try of download_post itself
RaiseInPost(req, e) == [req EXCEPT !.pc = "logfail", !.exc = e]

\* cookies_exist, line 120: read_text() on a file that cannot be read
CookieReadExc == ErrorExc(<<"[Errno 13]", "Permission", "denied">>)

\* get_download_options, lines 179-190, up to the start of the probe.  It is
\* called on line 346, before the try of _download_video: what cookies_exist
\* raises leaves _download_video as it is.
GetOptions(r) ==
    /\ rq[r].pc = "opts"
    /\ IF cm.enabled /\ CookiesUnreadable
       THEN /\ rq' = [rq EXCEPT ![r] = RaiseInPost(@, CookieReadExc)]
            /\ UNCHANGED <<probes, cookieFile>>
       ELSE IF cm.enabled /\ CookiesExist
       THEN IF ShouldValidate
            THEN /\ probes' = Append(probes, now)
                 /\ rq' = [rq EXCEPT ![r].pc = "probing"]
                 /\ UNCHANGED cookieFile
            ELSE /\ rq' = [rq EXCEPT ![r].pc = "readvalid"]
                 /\ UNCHANGED <<probes, cookieFile>>
       ELSE IF cm.enabled /\ ~CookiesExist
            THEN /\ cookieFile' = "sample"
                 /\ rq' = [rq EXCEPT ![r].pc = "extract"]
                 /\ UNCHANGED probes
            ELSE /\ rq' = [rq EXCEPT ![r].pc = "extract"]
                 /\ UNCHANGED <<probes, cookieFile>>
    /\ UNCHANGED <<conf, logRaises, cm, now, files, audit, forced, fv, cls, aux>>

\* validate_cookies, lines 139-152, called from get_download_options
ProbeDone(r) ==
    /\ rq[r].pc = "probing"
    /\ \E res \in ProbeResults :
        /\ cm' = AfterProbe(cm, res)
        /\ rq' = [rq EXCEPT ![r].pc = IF ValidAfterProbe(res) THEN "stamp"
                                      ELSE "readvalid"]
    /\ UNCHANGED <<conf, logRaises, cookieFile, now, files, audit, probes, forced, fv, cls, aux>>

\* validate_cookies, line 144
Stamp(r) ==
    /\ rq[r].pc = "stamp"
    /\ cm' = [cm EXCEPT !.last = now]
    /\ rq' = [rq EXCEPT ![r].pc = "readvalid"]
    /\ UNCHANGED <<conf, logRaises, cookieFile, now, files, audit, probes, forced, fv, cls, aux>>

\* get_download_options, lines 183-192
ReadValid(r) ==
    /\ rq[r].pc = "readvalid"
    /\ rq' = [rq EXCEPT ![r].pc = "extract", ![r].cookie = cm.valid]
    /\ UNCHANGED <<conf, logRaises, cm, cookieFile, now, files, audit, probes, forced, fv, cls, aux>>

\* POST /cookies/validate, lines 508-516, up to the start of the probe
ForceValidate ==
    /\ fv = "idle"
    /\ forced' = TRUE
    /\ fv' = IF cm.enabled /\ CookiesExist THEN "probing" ELSE "idle"
    /\ UNCHANGED <<conf, logRaises, cm, cookieFile, now, files, audit, probes, rq, cls, aux>>

ForceProbeDone ==
    /\ fv = "probing"
    /\ \E res \in ProbeResults :
        /\ cm' = AfterProbe(cm, res)
        /\ fv' = IF ValidAfterProbe(res) THEN "stamp" ELSE "idle"
    /\ UNCHANGED <<conf, logRaises, cookieFile, now, files, audit, probes, forced, rq, cls, aux>>

ForceStamp ==
    /\ fv = "stamp"
    /\ cm' = [cm EXCEPT !.last = now]
    /\ fv' = "idle"
    /\ UNCHANGED <<conf, logRaises, cookieFile, now, files, audit, probes, forced, rq, cls, aux>>

\* cookie_manager.validate_cookies() called on its own, lines 126-128, up to
\* the start of the probe
ValidateCall ==
    /\ vc.pc = "idle"
    /\ IF ~cm.enabled
       THEN /\ cm' = [cm EXCEPT !.valid = FALSE]
            /\ vc' = [pc |-> "idle", ret |-> "False"]
       ELSE IF CookiesUnreadable
       THEN /\ vc' = [pc |-> "idle", ret |-> "raised"]    \* read_text, line 120
            /\ UNCHANGED cm
       ELSE IF ~CookiesExist
       THEN /\ cm' = [cm EXCEPT !.valid = FALSE]
            /\ vc' = [pc |-> "idle", ret |-> "False"]
       ELSE /\ vc' = [pc |-> "probing", ret |-> None]
            /\ UNCHANGED cm
    /\ UNCHANGED <<conf, logRaises, cookieFile, now, files, audit, probes, forced,
                   fv, rq, cls, seen, dg>>

\* lines 139-152
ValidateProbe ==
    /\ vc.pc = "probing"
    /\ \E res \in ProbeResults :
        /\ cm' = AfterProbe(cm, res)
        /\ vc' = IF ValidAfterProbe(res) THEN [pc |-> "stamp", ret |-> None]
                 ELSE [pc |-> "idle", ret |-> "False"]
    /\ UNCHANGED <<conf, logRaises, cookieFile, now, files, audit, probes, forced,
                   fv, rq, cls, seen, dg>>

\* lines 144-146
ValidateStamp ==
    /\ vc.pc = "stamp"
    /\ cm' = [cm EXCEPT !.last = now]
    /\ vc' = [pc |-> "idle", ret |-> "True"]
    /\ UNCHANGED <<conf, logRaises, cookieFile, now, files, audit, probes, forced,
                   fv, rq, cls, seen, dg>>

\* The operator installs, replaces, removes or locks the cookie file
ReplaceCookieFile ==
    /\ \E f \in CookieFiles : f # cookieFile /\ cookieFile' = f
    /\ UNCHANGED <<conf, logRaises, cm, now, files, audit, probes, forced, fv, rq,
                   cls, aux>>

\* GET /cookies/status, lines 502-505: get_status reads the fields as they are
GetStatus ==
    /\ seen' = [cookies_enabled |-> cm.enabled, cookies_exist |-> CookiesExist,
                cookies_valid |-> cm.valid, last_validation |-> cm.last]
    /\ UNCHANGED <<conf, logRaises, cm, cookieFile, now, files, audit, probes,
                   forced, fv, rq, cls, dg, vc>>

\* _download_video, lines 349-352: the extractor runs, and raises one of
\* excs or leaves one of outs
ExtractWith(r, excs, outs) ==
    /\ rq[r].pc = "extract"
    /\ \/ \E e \in excs :
            /\ rq' = [rq EXCEPT ![r] = RaiseInDownload(@, e)]
            /\ UNCHANGED files
       \/ \E o \in outs :
            LET pred == Path(rq[r].vid, FALSE, 0, o[1])
                at   == CASE o[2] = "expected" -> pred
                          [] o[2] = "merged"   -> WithSuffix(pred, "mp4")
                          [] o[2] = "renamed"  -> Path(rq[r].vid, TRUE, 0, o[1])
                          [] OTHER             -> NoPath
            IN  /\ files' = IF at = NoPath THEN files ELSE WriteFile(files, at, r)
                /\ rq' = [rq EXCEPT ![r].pc = "resolve", ![r].pred = pred]
    /\ UNCHANGED <<conf, logRaises, cm, cookieFile, now, audit, probes, forced, fv, cls, aux>>

Extract(r) == ExtractWith(r, ExtractExcs, ExtractOuts)

\* lines 354-367: where the artifact is; NoPath when it is nowhere
ResolveOut(fs, pred, vid) ==
    LET out == IF Suffix(pred) # "mp4" /\ Exists(fs, WithSuffix(pred, "mp4"))
               THEN WithSuffix(pred, "mp4")
               ELSE pred
        candidates == Glob(fs, vid)
    IN  IF Exists(fs, out) THEN out
        ELSE IF candidates # <<>> THEN candidates[1]
        ELSE NoPath

MediaType(p) == IF IsImage(p) THEN IMAGE ELSE VIDEO

\* mutant: the oversize artifact is left where it is
RemoveOversize_Skipped(fs, out) == fs

\* lines 373-376: the oversize artifact is removed
RemoveOversize(fs, out) == Unlink(fs, out)

\* _download_video, lines 354-387: locate the artifact, measure it, sniff it
Resolve(r) ==
    /\ rq[r].pc = "resolve"
    /\ LET out == ResolveOut(files, rq[r].pred, rq[r].vid) IN
       IF out = NoPath
       THEN /\ rq' = [rq EXCEPT ![r] = RaiseInDownload(@, FileNotFoundExc)]
            /\ UNCHANGED files
       ELSE \E size \in StatSizes :
            IF TooLarge(size)
            THEN /\ files' = RemoveOversize(files, out)
                 /\ rq' = [rq EXCEPT ![r] =
                        RaiseInDownload([@ EXCEPT !.out = out, !.size = size],
                                        TooLargeExc(size))]
            ELSE /\ rq' = [rq EXCEPT ![r].pc = "convert", ![r].out = out,
                                     ![r].size = size, ![r].mtype = MediaType(out)]
                 /\ UNCHANGED files
    /\ UNCHANGED <<conf, logRaises, cm, cookieFile, now, audit, probes, forced, fv, cls, aux>>

\* mutant: the original is kept after the conversion
Converted_KeepOriginal(fs, file_path, out_path, r) == WriteFile(fs, out_path, r)

\* _convert_media, lines 312-317 and 331-333: ffmpeg wrote out_path
Converted(fs, file_path, out_path, r) ==
    LET written == WriteFile(fs, out_path, r)
    IN  IF out_path # file_path THEN Unlink(written, file_path) ELSE written

\* _download_video, line 388: _convert_media(out, media_type)
Convert(r) ==
    /\ rq[r].pc = "convert"
    /\ LET file_path == rq[r].out
           present   == Exists(files, file_path)
       IN
       IF rq[r].mtype = VIDEO
       THEN \E p \in (IF Suffix(file_path) # "mp4" THEN {NotProbed}
                      ELSE IF present THEN FfprobeOutcomes
                      ELSE {ProbeFailed}) :
            IF VideoNeedsConversion(file_path, p)
            THEN LET out_path == VideoOutPath(file_path) IN
                 \/ /\ present
                    /\ files' = Converted(files, file_path, out_path, r)
                    /\ rq' = [rq EXCEPT ![r].pc = "pin", ![r].probe = p,
                                        ![r].conv = "ok", ![r].convOut = out_path,
                                        ![r].file_path = out_path]
                 \/ \E stderr \in (IF present THEN FfmpegStderrs ELSE {NoSuchFile}) :
                    /\ rq' = [rq EXCEPT ![r] =
                           RaiseInDownload([@ EXCEPT !.probe = p, !.conv = "failed",
                                                     !.convOut = out_path],
                                           VideoConvExc(stderr))]
                    /\ UNCHANGED files
            ELSE /\ rq' = [rq EXCEPT ![r].pc = "pin", ![r].probe = p,
                                     ![r].file_path = file_path]
                 /\ UNCHANGED files
       ELSE IF rq[r].mtype = IMAGE /\ ImageNeedsConversion(file_path)
       THEN LET out_path == ImageOutPath(file_path) IN
            \/ /\ present
               /\ files' = Converted(files, file_path, out_path, r)
               /\ rq' = [rq EXCEPT ![r].pc = "pin", ![r].conv = "ok",
                                   ![r].convOut = out_path,
                                   ![r].file_path = out_path]
            \/ \E stderr \in (IF present THEN FfmpegStderrs ELSE {NoSuchFile}) :
               /\ rq' = [rq EXCEPT ![r] =
                      RaiseInDownload([@ EXCEPT !.conv = "failed", !.convOut = out_path],
                                      ImageConvExc(stderr))]
               /\ UNCHANGED files
       ELSE /\ rq' = [rq EXCEPT ![r].pc = "pin", ![r].file_path = file_path]
            /\ UNCHANGED files
    /\ UNCHANGED <<conf, logRaises, cm, cookieFile, now, audit, probes, forced, fv, cls, aux>>

\* _pin_to_pinata, lines 239-262
PinTimeout == ErrorExc(<<"Read", "timed", "out">>)

Pin(r) ==
    /\ rq[r].pc = "pin"
    /\ IF ~conf.jwt
       THEN rq' = [rq EXCEPT ![r] = RaiseInPost(@, NoJwtExc)]
       ELSE IF ~Exists(files, rq[r].file_path)
       THEN rq' = [rq EXCEPT ![r] = RaiseInPost(@, ENOENT)]
       ELSE \E res \in PinAnswers :
            CASE res = "200" ->
                    rq' = [rq EXCEPT ![r].pc = "logok", ![r].pinStatus = 200,
                                     ![r].pinned = rq[r].file_path]
              [] res = "500" ->
                    \E body \in PinBodies :
                    rq' = [rq EXCEPT ![r] =
                        RaiseInPost([@ EXCEPT !.pinStatus = 500,
                                              !.pinned = rq[r].file_path],
                                    PinataExc(body))]
              [] OTHER ->
                    rq' = [rq EXCEPT ![r] =
                        RaiseInPost([@ EXCEPT !.pinned = rq[r].file_path], PinTimeout)]
    /\ UNCHANGED <<conf, logRaises, cm, cookieFile, now, files, audit, probes, forced, fv, cls, aux>>

\* download_post, lines 548-575: after the pin, up to the return
LogCompleted(r) ==
    /\ rq[r].pc = "logok"
    /\ IF ~Exists(files, rq[r].file_path)
       THEN /\ rq' = [rq EXCEPT ![r] = RaiseInPost(@, ENOENT)]     \* file_path.stat()
            /\ UNCHANGED audit
       ELSE \E lg \in LogResults :
            IF lg = "ok"
            THEN /\ audit' = Emit(r, "completed")
                 /\ rq' = [rq EXCEPT ![r].pc = "finally", ![r].result = OkResult]
            ELSE /\ rq' = [rq EXCEPT ![r] = RaiseInPost(@, LogExc)]
                 /\ UNCHANGED audit
    /\ UNCHANGED <<conf, logRaises, cm, cookieFile, now, files, probes, forced, fv, cls, aux>>

\* download_post, lines 577-592
LogFailed(r) ==
    /\ rq[r].pc = "logfail"
    /\ \E lg \in LogResults :
        IF lg = "ok"
        THEN /\ audit' = Emit(r, "failed")
             /\ rq' = [rq EXCEPT ![r].pc = "finally", ![r].result = rq[r].exc]
        ELSE /\ rq' = [rq EXCEPT ![r].pc = "finally", ![r].result = LogExc]
             /\ UNCHANGED audit
    /\ UNCHANGED <<conf, logRaises, cm, cookieFile, now, files, probes, forced, fv, cls, aux>>

\* mutant: the finally block removes nothing
Cleanup_Never(fs, keep, file_path) == fs

\* download_post, lines 594-599.  file_path is unbound when _download_video
\* raised: the NameError is caught and logged.
Cleanup(fs, keep, file_path) ==
    IF ~keep /\ file_path # NoPath THEN Unlink(fs, file_path) ELSE fs

Finally(r) ==
    /\ rq[r].pc = "finally"
    /\ files' = Cleanup(files, conf.keep, rq[r].file_path)
    /\ rq' = [rq EXCEPT ![r] = Returned(@)]
    /\ UNCHANGED <<conf, logRaises, cm, cookieFile, now, audit, probes, forced, fv, cls, aux>>

Tick ==
    /\ now < MaxTime
    /\ now' = now + 1
    /\ UNCHANGED <<conf, logRaises, cm, cookieFile, files, audit, probes, forced, fv, rq, cls, aux>>

Next ==
    \/ \E r \in Reqs : Start(r)
    \/ \E r \in Reqs : GetOptions(r)
    \/ \E r \in Reqs : ProbeDone(r)
    \/ \E r \in Reqs : Stamp(r)
    \/ \E r \in Reqs : ReadValid(r)
    \/ \E r \in Reqs : Extract(r)
    \/ \E r \in Reqs : Resolve(r)
    \/ \E r \in Reqs : Convert(r)
    \/ \E r \in Reqs : Pin(r)
    \/ \E r \in Reqs : LogCompleted(r)
    \/ \E r \in Reqs : LogFailed(r)
    \/ \E r \in Reqs : Finally(r)

Spec == Init /\ [][Next]_vars

\* ------------------------------------- the pipeline and a locked cookie file
\* The pipeline with cookies enabled, one request after the other, where the
\* cookie file is the operator's own or one the service cannot read.
InitAcquire ==
    /\ cm = [enabled |-> TRUE, valid |-> FALSE, last |-> -1]
    /\ cookieFile \in {"real", "unreadable"}
    /\ now = 0
    /\ files = <<>>
    /\ audit = <<>>
    /\ probes = <<>>
    /\ forced = FALSE
    /\ fv = "idle"
    /\ rq = [r \in Reqs |-> IdleReq]
    /\ cls = ClsIdle
    /\ AuxIdle
    /\ logRaises = FALSE
    /\ conf = [keep |-> FALSE, jwt |-> TRUE, style |-> "status_detail", load |-> "serial"]

SpecAcquire == InitAcquire /\ [][Next]_vars

\* ------------------------------------------- the cookie manager under load
InitCookies ==
    /\ InitState
    /\ conf = [keep |-> FALSE, jwt |-> TRUE, style |-> "status_detail", load |-> "cookies"]

NextCookies ==
    \/ \E r \in Reqs : Start(r)
    \/ \E r \in Reqs : GetOptions(r)
    \/ \E r \in Reqs : ProbeDone(r)
    \/ \E r \in Reqs : Stamp(r)
    \/ \E r \in Reqs : ReadValid(r)
    \/ \E r \in Reqs : Extract(r)
    \/ \E r \in Reqs : LogFailed(r)
    \/ \E r \in Reqs : Finally(r)
    \/ ForceValidate
    \/ ForceProbeDone
    \/ ForceStamp
    \/ GetStatus
    \/ Tick

SpecCookies == InitCookies /\ [][NextCookies]_vars

\* ------------------------------------------------ the classifier on its own
Vocabulary ==
    { "Login", "login", "rate", "limit", "4", "2", "9", "authentication",
      "private", "Private", "unavailable", "not", "found", "timeout" }

RawTexts == UNION { [1..n -> Vocabulary] : n \in 0..MaxLen }

InitClassify ==
    /\ conf = [keep |-> FALSE, jwt |-> TRUE, style |-> "status_detail", load |-> "serial"]
    /\ cm = [enabled |-> FALSE, valid |-> FALSE, last |-> -1]
    /\ cookieFile = "absent"
    /\ now = 0
    /\ files = <<>>
    /\ audit = <<>>
    /\ probes = <<>>
    /\ forced = FALSE
    /\ fv = "idle"
    /\ rq = [r \in Reqs |-> IdleReq]
    /\ logRaises = FALSE
    /\ AuxIdle
    /\ cls \in [msg : RawTexts, enabled : BOOLEAN, valid : BOOLEAN, out : {NoExc}]

\* the except block of _download_video applied to str(e) = cls.msg
ClassifyStep ==
    /\ cls.out = NoExc
    /\ cls' = [cls EXCEPT !.out = Classify(cls.msg, cls.enabled, cls.valid)]
    /\ UNCHANGED <<conf, logRaises, cm, cookieFile, now, files, audit, probes, forced, fv, rq, aux>>

SpecClassify == InitClassify /\ [][ClassifyStep]_vars

\* ------------------------------------------- the audit log failing to write
\* The pipeline, one request after the other, where a call of
\* log_download_event can raise (json.dumps or the logger raising, e.g. a
\* RecursionError, which logging.StreamHandler.emit re-raises).
InitLog ==
    /\ InitService
    /\ logRaises = TRUE
    /\ (~cm.enabled \/ cookieFile = "real")
    /\ conf \in [keep : BOOLEAN, jwt : {TRUE}, style : {"status_detail"}, load : {"serial"}]

SpecLog == InitLog /\ [][Next]_vars

\* ------------------------------------------------------------ GET /d/{slug}
\* One call of GET /d/{b64url} with cookies disabled; the extractor fails
\* when the pipeline is entered.
InitSlug ==
    /\ InitCore
    /\ ~cm.enabled
    /\ logRaises = FALSE
    /\ seen = NoStatus /\ vc = VcIdle
    /\ conf = [keep |-> FALSE, jwt |-> TRUE, style |-> "status_detail", load |-> "slug"]
    /\ \E u \in UrlStrings, form \in SlugForms :
        dg = [DgIdle EXCEPT !.pc = "ready", !.u = u, !.form = form,
                            !.slug = FormOf(SlugOf(u), form)]

NextSlug ==
    \/ \E r \in Reqs : DownloadGet(r)
    \/ \E r \in Reqs : GetOptions(r)
    \/ \E r \in Reqs : Extract(r)
    \/ \E r \in Reqs : LogFailed(r)
    \/ \E r \in Reqs : Finally(r)

SpecSlug == InitSlug /\ [][NextSlug]_vars

\* ------------------------------------------------- validate_cookies by itself
\* validate_cookies() called again and again, whatever is at the cookie path,
\* while the clock runs and the operator changes the file.
InitValidate ==
    /\ cm \in [enabled : BOOLEAN, valid : {FALSE}, last : {-1}]
    /\ cookieFile \in CookieFiles
    /\ now = 0
    /\ files = <<>>
    /\ audit = <<>>
    /\ probes = <<>>
    /\ forced = FALSE
    /\ fv = "idle"
    /\ rq = [r \in Reqs |-> IdleReq]
    /\ cls = ClsIdle
    /\ AuxIdle
    /\ logRaises = FALSE
    /\ conf = [keep |-> FALSE, jwt |-> TRUE, style |-> "status_detail", load |-> "cookies"]

NextValidate ==
    \/ ValidateCall
    \/ ValidateProbe
    \/ ValidateStamp
    \/ ReplaceCookieFile
    \/ Tick

SpecValidate == InitValidate /\ [][NextValidate]_vars

\* ================================================================== claims
Frames == {rq[r] : r \in Reqs}
EventsOf(r) ==
    LET ev == SelectSeq(audit, LAMBDA e : e.req = r)
    IN  [i \in 1..Len(ev) |-> ev[i].status]
Oversize(f) == f.size # -1 /\ f.size > MAX_FILE_MB * 10
\* the handler has logged its terminal event and is about to clean up and return
Finishing(f) == f.pc = "finally"

\* C1: a request whose artifact was measured above MAX_FILE_MB answers its
\* caller with the 413 "File too large" error carrying the size and the limit.
C1_TooLargeReachesCaller ==
    \A r \in Reqs :
        (Finishing(rq[r]) /\ Oversize(rq[r]))
            => rq[r].result = HTTPExc(413, TooLargeDetail(rq[r].size))

\* C2: for a request whose artifact was measured above MAX_FILE_MB, the
\* artifact is removed in the step that measures it, the request leaves no
\* file of its own at that path, and it never converts and never pins.
C2_OversizeState ==
    \A r \in Reqs :
        Oversize(rq[r]) =>
            /\ rq[r].pc \in {"logfail", "finally"}
            /\ rq[r].conv = None /\ rq[r].convOut = NoPath
            /\ rq[r].pinned = NoPath /\ rq[r].pinStatus = 0
            /\ rq[r].file_path = NoPath
            /\ ~\E i \in 1..Len(files) :
                    files[i].path = rq[r].out /\ files[i].owner = r
C2_OversizeStep ==
    \A r \in Reqs :
        (~Oversize(rq[r]) /\ Oversize(rq'[r])) => ~Exists(files', rq'[r].out)
C2_OversizeDeletedNeverPinned == []C2_OversizeState /\ [][C2_OversizeStep]_vars
C2_Witness ==
    \E r \in Reqs : Finishing(rq[r]) /\ Oversize(rq[r]) /\ rq[r].size = 20000

\* C3: with KEEP_FILES off, a request that has returned has left no file
\* that it wrote (downloaded original or converted output) on disk.
C3_NoArtifactLeft ==
    \A r \in Reqs :
        (rq[r].pc = "done" /\ ~conf.keep)
            => ~\E i \in 1..Len(files) : files[i].owner = r

\* C4: when Pinata answers 500, the request raises the 502 "Pinata error"
\* with the response body, logs no "completed" event, and with KEEP_FILES
\* off its file is gone after the finally block.
C4_PinFailedState ==
    \A r \in Reqs :
        rq[r].pinStatus = 500 =>
            /\ rq[r].pc \in {"logfail", "finally"}
            /\ \E body \in PinBodies :
                  /\ rq[r].exc = HTTPExc(502, <<"Pinata", "error:">> \o body)
                  /\ Finishing(rq[r]) => rq[r].result = rq[r].exc
            /\ \A i \in 1..Len(EventsOf(r)) : EventsOf(r)[i] # "completed"
            /\ rq[r].pinned = rq[r].file_path /\ rq[r].file_path # NoPath
C4_PinFailedStep ==
    \A r \in Reqs :
        (rq[r].pinStatus = 500 /\ Finishing(rq[r]) /\ rq'[r].pc = "done" /\ ~conf.keep)
            => ~Exists(files', rq[r].file_path)
C4_PinningFailed == []C4_PinFailedState /\ [][C4_PinFailedStep]_vars
C4_Witness ==
    \E r \in Reqs :
        /\ rq[r].pinStatus = 500 /\ Finishing(rq[r]) /\ ~conf.keep
        /\ rq[r].conv = "ok" /\ Exists(files, rq[r].file_path)

\* C5: every request logs one "started" event and then one terminal event,
\* "completed" or "failed"; "completed" is logged only after Pinata answered 200.
C5_EventsState ==
    \A r \in Reqs :
        LET ev == EventsOf(r) IN
        CASE rq[r].pc = "idle" -> ev = <<>>
          [] rq[r].pc \in {"finally", "done"} ->
                ev \in {<<"started", "completed">>, <<"started", "failed">>}
          [] OTHER -> ev = <<"started">>
C5_EventsStep ==
    \A r \in Reqs :
        (EventsOf(r) # EventsOf(r)' /\ EventsOf(r)'[Len(EventsOf(r)')] = "completed")
            => rq[r].pinStatus = 200 /\ rq[r].pinned = rq[r].file_path
C5_OneStartedOneTerminal == []C5_EventsState /\ [][C5_EventsStep]_vars
C5_Witness ==
    /\ \E r \in Reqs : rq[r].pc = "done" /\ EventsOf(r) = <<"started", "completed">>
    /\ \E r \in Reqs : rq[r].pc = "done" /\ EventsOf(r) = <<"started", "failed">>

\* C6: when the extractor succeeded and no file is found at the expected
\* path or by the id glob, the caller gets the 500 "Downloaded file not
\* found" error, and the audit log holds one "failed" and no "completed".
C6_NotFoundReachesCaller ==
    \A r \in Reqs :
        (Finishing(rq[r]) /\ rq[r].raised = FileNotFoundExc)
            => /\ rq[r].result = FileNotFoundExc
               /\ EventsOf(r) = <<"started", "failed">>

\* C7: absent POST /cookies/validate, any two validation probes started by
\* get_download_options are at least COOKIE_VALIDATION_INTERVAL apart.
C7_ProbesApart ==
    ~forced =>
        \A i, j \in 1..Len(probes) :
            i < j => probes[j] - probes[i] >= COOKIE_VALIDATION_INTERVAL

\* C8: for a video, ffmpeg runs iff the extension is not .mp4 or ffprobe did
\* not report h264/avc; when it runs the output is an .mp4; for h264/avc in
\* .mp4 it does not run.
ReportsCompatible(p) ==
    p.ok /\ \E i \in 1..Len(p.streams) : p.streams[i] \in {"h264", "avc"}
PastConvert(f) == f.file_path # NoPath \/ f.conv # None
C8_ConversionTable ==
    \A r \in Reqs :
        (rq[r].mtype = VIDEO /\ PastConvert(rq[r])) =>
            /\ (rq[r].conv # None)
                  <=> (Suffix(rq[r].out) # "mp4" \/ ~ReportsCompatible(rq[r].probe))
            /\ rq[r].conv # None => rq[r].convOut.ext = "mp4"
            /\ rq[r].conv = None => rq[r].file_path = rq[r].out
C8_Witness ==
    \E r \in Reqs : /\ rq[r].mtype = VIDEO /\ rq[r].conv = "ok"
                    /\ rq[r].out.ext = "MP4"
                    /\ rq[r].probe = [ok |-> TRUE, streams |-> <<"hevc">>]
                    /\ rq[r].convOut = H264Name(rq[r].out)

\* C9: after a conversion that succeeded, the path _convert_media returns is
\* the new output, which is not the original path; the original is gone and
\* the output exists; what is posted to Pinata is the output.
C9_ConvertedState ==
    \A r \in Reqs :
        rq[r].conv = "ok" =>
            /\ rq[r].file_path = rq[r].convOut
            /\ rq[r].convOut # rq[r].out
            /\ rq[r].pinned \in {NoPath, rq[r].convOut}
C9_ConvertedStep ==
    \A r \in Reqs :
        (rq[r].conv = None /\ rq'[r].conv = "ok")
            => /\ ~Exists(files', rq[r].out)
               /\ Exists(files', rq'[r].file_path)
C9_OutputReplacesOriginal == []C9_ConvertedState /\ [][C9_ConvertedStep]_vars
C9_Witness ==
    /\ \E r \in Reqs : rq[r].conv = "ok" /\ rq[r].mtype = VIDEO
                       /\ rq[r].pinned = rq[r].convOut /\ rq[r].pinStatus = 200
    /\ \E r \in Reqs : rq[r].conv = "ok" /\ rq[r].mtype = IMAGE
                       /\ rq[r].pinned = rq[r].convOut

\* C10: the handler answers with the status of the first keyword group, in
\* the order auth/rate-limit (503), unavailable/not-found (404), private
\* (403), that the lower-cased text matches, and with 500 and the original
\* text when it matches none.
Mentions(text, words) ==
    \E i \in 1..Len(text) :
        /\ i + Len(words) - 1 <= Len(text)
        /\ \A j \in 1..Len(words) : LowerTok(text[i + j - 1]) = words[j]
Group1(t) ==
    \/ Mentions(t, <<"login">>) \/ Mentions(t, <<"rate", "limit">>)
    \/ Mentions(t, <<"4", "2", "9">>) \/ Mentions(t, <<"authentication">>)
    \/ Mentions(t, <<"private">>)
Group2(t) == Mentions(t, <<"unavailable">>) \/ Mentions(t, <<"not", "found">>)
Group3(t) == Mentions(t, <<"private">>)
C10_FirstMatchingGroup ==
    cls.out # NoExc =>
        /\ cls.out.type = "HTTP"
        /\ cls.out.status =
              (IF Group1(cls.msg) THEN 503
               ELSE IF Group2(cls.msg) THEN 404
               ELSE IF Group3(cls.msg) THEN 403
               ELSE 500)
        /\ cls.out.status = 500 => cls.out.detail = <<"Download", "failed:">> \o cls.msg
C10_Witness ==
    /\ cls.msg = <<"Private", "not", "found">>
    /\ cls.out.status = 503

\* C11: when log_download_event raises while logging "completed", after the
\* download, the conversion and the pin have succeeded, the caller still gets
\* the success response with the cid.
C11_SuccessSurvivesLogFailure ==
    \A r \in Reqs :
        (Finishing(rq[r]) /\ rq[r].pinStatus = 200 /\ rq[r].exc = LogExc)
            => rq[r].result = OkResult

\* C12: for every string u, _b64url_decode of the unpadded base64url
\* encoding of u returns u.
C12_DecodeInvertsEncode ==
    (dg.pc \notin {"idle", "ready"} /\ dg.form = "exact")
        => dg.ok /\ dg.url = dg.u
C12_Witness ==
    /\ dg.pc = "done" /\ dg.form = "exact"
    /\ dg.u = <<104, 8364>> /\ Len(dg.slug) % 4 = 2
    /\ dg.ok /\ dg.url = dg.u

\* C13: GET /d/{b64url} with a slug whose length is 1 modulo 4 answers 400
\* "Malformed base64url slug" without entering download_post: nothing is
\* logged, no request frame exists, and cookie_manager is as it was.
C13_ShortSlugRejected ==
    (dg.pc \notin {"idle", "ready"} /\ Len(dg.slug) % 4 = 1)
        => /\ dg.result = MalformedSlugExc
           /\ audit = <<>>
           /\ \A r \in Reqs : rq[r] = IdleReq
           /\ cm = [enabled |-> FALSE, valid |-> FALSE, last |-> -1]
           /\ cookieFile = "absent"

\* C14: whatever the interleaving, GET /cookies/status never answers
\* cookies_valid = true with last_validation absent, and no two requests are
\* inside the validation probe of get_download_options at the same time.
Probing == {r \in Reqs : rq[r].pc = "probing"}
C14_NoTornStateNoDoubleProbe ==
    /\ (seen # NoStatus /\ seen.cookies_valid) => seen.last_validation # -1
    /\ Cardinality(Probing) <= 1

\* C15: the file a request has selected (out, before the conversion) and the
\* file it uploads and deletes (file_path), when present in DOWNLOAD_DIR,
\* was written by that request and by no other.
WrittenBy(p) == {files[i].owner : i \in {j \in 1..Len(files) : files[j].path = p}}
C15_OwnArtifactsOnly ==
    \A r \in Reqs :
        /\ rq[r].pc = "convert" => WrittenBy(rq[r].out) \subseteq {r}
        /\ rq[r].pc \in {"pin", "logok", "finally"}
              => WrittenBy(rq[r].file_path) \subseteq {r}

\* C16: any two requests that have entered download_post have different
\* download ids.
C16_UniqueDownloadIds ==
    \A r1, r2 \in Reqs :
        (r1 # r2 /\ rq[r1].id # -1 /\ rq[r2].id # -1) => rq[r1].id # rq[r2].id

\* C17: the options get_download_options returns carry "cookiefile" exactly
\* when cookies are enabled, the cookie file is a real one (there, and not
\* the placeholder) and cookies_valid is true once the due revalidation is
\* over; with cookies enabled and no real file it writes the placeholder and
\* returns options without "cookiefile"; a placeholder is never attached.
C17_OptionsState ==
    \A r \in Reqs : rq[r].cookie => cm.enabled /\ cookieFile = "real"
C17_OptionsStep ==
    \A r \in Reqs :
        (rq[r].pc \in {"opts", "readvalid"} /\ rq'[r].pc = "extract") =>
            /\ rq'[r].cookie <=> (cm.enabled /\ cookieFile = "real" /\ cm.valid)
            /\ (cm.enabled /\ cookieFile # "real")
                  => cookieFile' = "sample" /\ rq[r].pc = "opts"
            /\ (~cm.enabled \/ cookieFile = "real") => cookieFile' = cookieFile
C17_CookiefileOnlyWhenValid == []C17_OptionsState /\ [][C17_OptionsStep]_vars
C17_Witness ==
    /\ rq[1].pc = "done"
    /\ rq[2].pc = "extract" /\ rq[2].cookie
    /\ probes = <<0>> /\ cm.valid

\* C18: validate_cookies never raises; when it returns True cookies_valid is
\* true and last_validation is set, with the time of line 144; when it
\* returns False (cookies disabled, no real file, unreadable file, probe
\* raising or answering nothing) cookies_valid is false.
C18_ValidateNeverRaises ==
    /\ vc.ret # "raised"
    /\ (vc.pc = "idle" /\ vc.ret = "True") => cm.valid /\ cm.last \in 0..now
    /\ (vc.pc = "idle" /\ vc.ret = "False") => ~cm.valid

\* C20: a call of validate_cookies that fails leaves last_validation as it
\* was (only line 144, after a successful probe, writes it); so as long as
\* last_validation is None, should_validate is true after every failed call.
C20_UnsetMeansDue == cm.last = -1 => ShouldValidate
C20_FailedCallStep ==
    /\ (vc' # vc /\ vc'.pc = "idle" /\ vc'.ret \in {"False", "raised"})
          => /\ cm'.last = cm.last
             /\ cm.last = -1 => ShouldValidate'
    /\ cm'.last # cm.last => vc.pc = "stamp" /\ cm'.last = now
C20_FailureKeepsTimestamp == []C20_UnsetMeansDue /\ [][C20_FailedCallStep]_vars
C20_Witness ==
    /\ vc.pc = "idle" /\ vc.ret = "False"
    /\ cm.enabled /\ cookieFile = "real" /\ ~cm.valid
    /\ cm.last = 0 /\ now = 2

\* C19: when ffmpeg fails, whatever its stderr says, the caller gets a 500
\* whose message holds the "... conversion failed: <stderr>" text of
\* _convert_media, and nothing is posted to Pinata.
C19_ConversionFailedReachesCaller ==
    \A r \in Reqs :
        (Finishing(rq[r]) /\ rq[r].conv = "failed") =>
            /\ rq[r].result.type = "HTTP" /\ rq[r].result.status = 500
            /\ Contains(rq[r].raised.detail, rq[r].result.detail)
            /\ rq[r].pinned = NoPath /\ rq[r].pinStatus = 0

\* the frame is handling what _download_video raised: file_path was never bound
FromDownloadVideo(f) == f.pc = "logfail" /\ f.file_path = NoPath

\* C21: every error that _download_video delivers to download_post is an
\* HTTPException whose status is 503, 404, 403 or 500: whatever fails in the
\* acquisition stage, typed or not, is caught by the one handler and
\* classified again from its text.
C21_DeliveredErrorsClassified ==
    \A r \in Reqs :
        FromDownloadVideo(rq[r]) =>
            /\ rq[r].exc.type = "HTTP"
            /\ rq[r].exc.status \in {503, 404, 403, 500}

\* C22: "private" is one of the auth/rate-limit keywords, so a failure text
\* that contains it is classified 503, whatever else it contains, and no
\* failure text at all is classified 403.
C22_PrivateIs503Never403 ==
    cls.out # NoExc =>
        /\ Mentions(cls.msg, <<"private">>) =>
              /\ cls.out.status = 503
              /\ cls.out.detail \in {UpdateCookiesMsg, TryLaterMsg}
        /\ cls.out.status # 403
        /\ cls.out.detail # PrivateMsg
C22_Witness ==
    /\ cls.msg = <<"Private", "timeout">>
    /\ cls.out = HTTPExc(503, TryLaterMsg)

=============================================================================
